---- MODULE Spec2Model ----
(***************************************************************************)
(* Model of jpath.py: the JPath evaluator over a JSON tree.                *)
(*                                                                         *)
(* Python strings are modelled as sequences of one-character strings, so   *)
(* that strip, split and the two regular expressions are computed          *)
(* character by character.  Tree values are tagged records:                *)
(*   null, num (int), str (character sequence), seq (list), map (dict).    *)
(* Dict keys are tagged as well, because `d[0] = v` on a dict stores an    *)
(* int key next to the str keys.                                           *)
(*                                                                         *)
(* Domain of the model: trees without sharing (no object appears twice in  *)
(* the tree), no booleans or floats, ASCII strings without newlines.       *)
(***************************************************************************)
EXTENDS Integers, Sequences, FiniteSets, TLC

(***************************************************************************)
(* Bounds of the model.                                                    *)
(***************************************************************************)
\* longest path, in tokens, that the operations are called with
MaxTokens == 2
\* number of successful Set calls in one behaviour
MaxSets == 1

(***************************************************************************)
(* Characters.                                                             *)
(***************************************************************************)
Digit == {"0", "1", "2", "3", "4", "5", "6", "7", "8", "9"}
Lower == {"a", "b", "c", "d", "e", "f", "g", "h", "i", "j", "k", "l", "m",
          "n", "o", "p", "q", "r", "s", "t", "u", "v", "w", "x", "y", "z"}
Upper == {"A", "B", "C", "D", "E", "F", "G", "H", "I", "J", "K", "L", "M",
          "N", "O", "P", "Q", "R", "S", "T", "U", "V", "W", "X", "Y", "Z"}
\* [a-zA-Z0-9]
Alnum == Lower \cup Upper \cup Digit
\* \w
Word == Alnum \cup {"_"}

delimiter == "/"

DigitVal(c) ==
  CASE c = "0" -> 0 [] c = "1" -> 1 [] c = "2" -> 2 [] c = "3" -> 3
    [] c = "4" -> 4 [] c = "5" -> 5 [] c = "6" -> 6 [] c = "7" -> 7
    [] c = "8" -> 8 [] c = "9" -> 9

\* int(digits), most significant digit first
RECURSIVE ParseInt(_)
ParseInt(ds) ==
  IF ds = <<>> THEN 0
  ELSE 10 * ParseInt(SubSeq(ds, 1, Len(ds) - 1)) + DigitVal(ds[Len(ds)])

\* s[i:] with a 1-based i
Drop(s, i) == SubSeq(s, i, Len(s))

\* length of the longest prefix of s made of characters of cls
RECURSIVE RunLen(_, _)
RunLen(s, cls) ==
  IF s = <<>> \/ s[1] \notin cls THEN 0 ELSE 1 + RunLen(Tail(s), cls)

StartsWith(s, p) == Len(s) >= Len(p) /\ SubSeq(s, 1, Len(p)) = p

\* str.strip('/')
RECURSIVE LStrip(_)
LStrip(s) == IF s # <<>> /\ s[1] = delimiter THEN LStrip(Tail(s)) ELSE s

RECURSIVE RStrip(_)
RStrip(s) ==
  IF s # <<>> /\ s[Len(s)] = delimiter
  THEN RStrip(SubSeq(s, 1, Len(s) - 1)) ELSE s

Strip(s) == RStrip(LStrip(s))

\* str.split(sep) for a non-empty separator: always at least one part
RECURSIVE SplitAcc(_, _, _)
SplitAcc(s, sep, cur) ==
  IF s = <<>> THEN <<cur>>
  ELSE IF StartsWith(s, sep)
       THEN <<cur>> \o SplitAcc(Drop(s, Len(sep) + 1), sep, <<>>)
       ELSE SplitAcc(Tail(s), sep, Append(cur, s[1]))

Split(s, sep) == SplitAcc(s, sep, <<>>)

IteratorToken == <<"[", "*", "]">>

\* '[*]' in s
HasIteratorToken(s) == Len(Split(s, IteratorToken)) > 1

(***************************************************************************)
(* The two regular expressions.                                            *)
(***************************************************************************)
NoMatch == [kind |-> "none", index |-> <<>>, key_attribute |-> <<>>,
            key_value |-> <<>>, key |-> <<>>]

\* \[(\d+)\] matched at the start of s: the digits, or <<>> when it does
\* not match there
IndexPrefix(s) ==
  IF s # <<>> /\ s[1] = "["
  THEN LET n == RunLen(Tail(s), Digit)
       IN  IF n >= 1 /\ Len(s) >= n + 2 /\ s[n + 2] = "]"
           THEN SubSeq(s, 2, n + 1) ELSE <<>>
  ELSE <<>>

\* \[@(\w+)=(.+)\]$ matched at the start of s
PredicateAt(s) ==
  IF Len(s) >= 2 /\ s[1] = "[" /\ s[2] = "@"
  THEN LET n    == RunLen(Drop(s, 3), Word)
           rest == Drop(s, n + 4)
       IN  IF n >= 1 /\ Len(s) >= n + 3 /\ s[n + 3] = "="
              /\ Len(rest) >= 2 /\ rest[Len(rest)] = "]"
           THEN [kind |-> "predicate", index |-> <<>>,
                 key_attribute |-> SubSeq(s, 3, n + 2),
                 key_value |-> SubSeq(rest, 1, Len(rest) - 1),
                 key |-> <<>>]
           ELSE NoMatch
  ELSE NoMatch

\* leftmost position at which the predicate alternative matches
RECURSIVE PredicateSearch(_)
PredicateSearch(s) ==
  IF s = <<>> THEN NoMatch
  ELSE IF PredicateAt(s).kind = "predicate" THEN PredicateAt(s)
       ELSE PredicateSearch(Tail(s))

\* _attribute_sniffer_regex.search(token): '|' binds weaker than '^' and
\* '$', so the index alternative is anchored at the start only and the
\* predicate alternative at the end only
attribute_sniffer_regex(token) ==
  IF IndexPrefix(token) # <<>>
  THEN [kind |-> "index", index |-> IndexPrefix(token),
        key_attribute |-> <<>>, key_value |-> <<>>, key |-> <<>>]
  ELSE PredicateSearch(token)

\* re.match(r'(\[(?P<index>\d+)\])|(?P<key>[a-zA-Z0-9]+)', token): matches
\* a prefix of the token
SetTokenMatch(token) ==
  IF IndexPrefix(token) # <<>>
  THEN [kind |-> "index", index |-> IndexPrefix(token),
        key_attribute |-> <<>>, key_value |-> <<>>, key |-> <<>>]
  ELSE IF RunLen(token, Alnum) >= 1
       THEN [kind |-> "key", index |-> <<>>, key_attribute |-> <<>>,
             key_value |-> <<>>,
             key |-> SubSeq(token, 1, RunLen(token, Alnum))]
       ELSE NoMatch

(***************************************************************************)
(* Tree values and dict keys.                                              *)
(***************************************************************************)
Null == [kind |-> "null"]
Num(n) == [kind |-> "num", n |-> n]
Str(c) == [kind |-> "str", c |-> c]
SeqV(s) == [kind |-> "seq", s |-> s]
MapV(m) == [kind |-> "map", m |-> m]

StrKey(c) == [t |-> "s", c |-> c, n |-> 0]
IntKey(n) == [t |-> "i", c |-> <<>>, n |-> n]

\* Python truth value: `not v`
Falsy(v) ==
  CASE v.kind = "null" -> TRUE
    [] v.kind = "num" -> v.n = 0
    [] v.kind = "str" -> v.c = <<>>
    [] v.kind = "seq" -> v.s = <<>>
    [] v.kind = "map" -> DOMAIN v.m = {}

\* outcome of a call: the value returned, or the exception raised
Ok(v) == [ok |-> TRUE, err |-> "none", val |-> v]
Raise(e) == [ok |-> FALSE, err |-> e, val |-> Null]

\* class QueryError(JPathError), class JPathError(Error)
QueryErrors == {"QueryError.speculative", "QueryError.corrupt"}
JPathErrors == {"JPathError.nopath", "JPathError.noiterator"} \cup QueryErrors

\* json_data[key]
GetItem(json_data, key) ==
  CASE json_data.kind = "map" ->
         IF key \in DOMAIN json_data.m THEN Ok(json_data.m[key])
         ELSE Raise("KeyError")
    [] json_data.kind = "seq" ->
         IF key.t # "i" THEN Raise("TypeError")
         ELSE IF key.n < Len(json_data.s) THEN Ok(json_data.s[key.n + 1])
         ELSE Raise("IndexError")
    [] json_data.kind = "str" ->
         IF key.t # "i" THEN Raise("TypeError")
         ELSE IF key.n < Len(json_data.c)
              THEN Ok(Str(<<json_data.c[key.n + 1]>>))
         ELSE Raise("IndexError")
    [] OTHER -> Raise("TypeError")

\* the value a dict key has as an element of an iteration over the dict
KeyValue(key) == IF key.t = "i" THEN Num(key.n) ELSE Str(key.c)

\* the sequences that enumerate the set S, each element once
RECURSIVE Orders(_)
Orders(S) ==
  IF S = {} THEN {<<>>}
  ELSE UNION {{<<x>> \o o : o \in Orders(S \ {x})} : x \in S}

\* `for data_elem in json_data`: the possible sequences of elements (a
\* dict iterates over its keys in an order the program does not control),
\* or the empty set when json_data is not iterable
Iterations(json_data) ==
  CASE json_data.kind = "seq" -> {json_data.s}
    [] json_data.kind = "str" ->
         {[i \in 1..Len(json_data.c) |-> Str(<<json_data.c[i]>>)]}
    [] json_data.kind = "map" ->
         {[i \in 1..Len(o) |-> KeyValue(o[i])] : o \in Orders(DOMAIN json_data.m)}
    [] OTHER -> {}

\* the loop of _GrabDataByToken over the elements of json_data
RECURSIVE FirstMatch(_, _, _)
FirstMatch(elems, key_attribute, key_value) ==
  IF elems = <<>> THEN Ok(Null)
  ELSE LET r == GetItem(elems[1], StrKey(key_attribute))
       IN  IF ~r.ok THEN r
           ELSE IF r.val = Str(key_value) THEN Ok(elems[1])
           ELSE FirstMatch(Tail(elems), key_attribute, key_value)

GrabDataByToken(json_data, token) ==
  LET findings == attribute_sniffer_regex(token)
  IN  CASE findings.kind = "index" ->
             GetItem(json_data, IntKey(ParseInt(findings.index)))
        [] findings.kind = "predicate" ->
             \* over a non-empty dict the loop fails at its first element
             \* whatever the order, so one order stands for all
             IF Iterations(json_data) = {} THEN Raise("TypeError")
             ELSE FirstMatch(CHOOSE e \in Iterations(json_data) : TRUE,
                             findings.key_attribute, findings.key_value)
        [] OTHER -> GetItem(json_data, StrKey(token))

\* Get called with a token list: the recursive calls
RECURSIVE GetTokens(_, _, _)
GetTokens(root, json_data, tokens) ==
  LET data          == IF Falsy(json_data) THEN root ELSE json_data
      new_json_data == GrabDataByToken(data, Head(tokens))
  IN  IF ~new_json_data.ok THEN new_json_data
      ELSE IF Tail(tokens) # <<>>
           THEN GetTokens(root, new_json_data.val, Tail(tokens))
           ELSE new_json_data

\* Get(jpath_query, json_data) on the evaluator whose tree is root; a call
\* without json_data passes None, modelled by Null
Get(root, jpath_query, json_data) ==
  IF jpath_query = <<>> THEN Raise("JPathError.nopath")
  ELSE GetTokens(root, json_data, Split(Strip(jpath_query), <<delimiter>>))

(***************************************************************************)
(* Set.                                                                    *)
(***************************************************************************)
\* json_data[key] = set_value: the container after the assignment
SetItem(json_data, key, set_value) ==
  CASE json_data.kind = "map" ->
         Ok(MapV([k \in DOMAIN json_data.m \cup {key} |->
                    IF k = key THEN set_value ELSE json_data.m[k]]))
    [] json_data.kind = "seq" ->
         IF key.t # "i" THEN Raise("TypeError")
         ELSE IF key.n < Len(json_data.s)
              THEN Ok(SeqV([json_data.s EXCEPT ![key.n + 1] = set_value]))
         ELSE Raise("IndexError")
    [] OTHER -> Raise("TypeError")

\* the object reached from root through the keys of loc; a location names
\* an object of the tree, so that an assignment to it can be told from an
\* assignment to an equal object elsewhere
RECURSIVE NodeAt(_, _)
NodeAt(root, loc) ==
  IF loc = <<>> THEN root
  ELSE NodeAt(GetItem(root, Head(loc)).val, Tail(loc))

\* the tree in which the object at loc is new_node
RECURSIVE ReplaceAt(_, _, _)
ReplaceAt(root, loc, new_node) ==
  IF loc = <<>> THEN new_node
  ELSE SetItem(root, Head(loc),
               ReplaceAt(GetItem(root, Head(loc)).val, Tail(loc), new_node)).val

\* SetTokens as it would be if the descent created the dicts it misses
\* (json_data.setdefault(key, {}) in place of json_data[key])
RECURSIVE SetTokensVivify(_, _, _, _)
SetTokensVivify(root, loc, tokens, set_value) ==
  LET data_loc  == IF Falsy(NodeAt(root, loc)) THEN <<>> ELSE loc
      json_data == NodeAt(root, data_loc)
      token     == Head(tokens)
      m         == SetTokenMatch(token)
      key       == IF m.kind = "index" THEN IntKey(ParseInt(m.index))
                   ELSE StrKey(m.key)
  IN  IF StartsWith(token, <<"[", "@">>)
      THEN [res |-> Raise("QueryError.speculative"), tree |-> root]
      ELSE IF m.kind = "none"
      THEN [res |-> Raise("QueryError.corrupt"), tree |-> root]
      ELSE IF Tail(tokens) # <<>>
      THEN IF GetItem(json_data, key).ok
           THEN SetTokensVivify(root, Append(data_loc, key), Tail(tokens),
                                set_value)
           ELSE IF json_data.kind = "map"
           THEN SetTokensVivify(
                  ReplaceAt(root, data_loc,
                            SetItem(json_data, key, MapV(<<>>)).val),
                  Append(data_loc, key), Tail(tokens), set_value)
           ELSE [res |-> GetItem(json_data, key), tree |-> root]
      ELSE LET stored == SetItem(json_data, key, set_value)
           IN  IF ~stored.ok THEN [res |-> stored, tree |-> root]
               ELSE [res  |-> Ok(Null),
                     tree |-> ReplaceAt(root, data_loc, stored.val)]

\* Set on the object at loc of the tree root with the tokens left: the
\* outcome and the tree after the call
RECURSIVE SetTokens(_, _, _, _)
SetTokens(root, loc, tokens, set_value) ==
  LET data_loc  == IF Falsy(NodeAt(root, loc)) THEN <<>> ELSE loc
      json_data == NodeAt(root, data_loc)
      token     == Head(tokens)
      m         == SetTokenMatch(token)
      key       == IF m.kind = "index" THEN IntKey(ParseInt(m.index))
                   ELSE StrKey(m.key)
  IN  IF StartsWith(token, <<"[", "@">>)
      THEN [res |-> Raise("QueryError.speculative"), tree |-> root]
      ELSE IF m.kind = "none"
      THEN [res |-> Raise("QueryError.corrupt"), tree |-> root]
      ELSE IF Tail(tokens) # <<>>
      THEN IF ~GetItem(json_data, key).ok
           THEN [res |-> GetItem(json_data, key), tree |-> root]
           ELSE SetTokens(root, Append(data_loc, key), Tail(tokens), set_value)
      ELSE LET stored == SetItem(json_data, key, set_value)
           IN  IF ~stored.ok THEN [res |-> stored, tree |-> root]
               ELSE [res  |-> Ok(Null),
                     tree |-> ReplaceAt(root, data_loc, stored.val)]

Set(root, jpath_query, set_value) ==
  IF jpath_query = <<>>
  THEN [res |-> Raise("JPathError.nopath"), tree |-> root]
  ELSE SetTokens(root, <<>>, Split(Strip(jpath_query), <<delimiter>>),
                 set_value)

(***************************************************************************)
(* IterItems.                                                              *)
(***************************************************************************)
\* the generator's loop over elems: the items yielded, and how it ended
RECURSIVE Yield(_, _, _)
Yield(root, trailing_path, elems) ==
  IF elems = <<>> THEN [res |-> Ok(Null), items |-> <<>>]
  ELSE LET trailing_data == Get(root, trailing_path, elems[1])
       IN  IF ~trailing_data.ok THEN [res |-> trailing_data, items |-> <<>>]
           ELSE LET rest == Yield(root, trailing_path, Tail(elems))
                IN  [res   |-> rest.res,
                     items |-> <<trailing_data.val>> \o rest.items]

\* the possible outcomes of consuming IterItems(jpath_query) to its end
IterItems(root, jpath_query) ==
  LET parts     == Split(jpath_query, IteratorToken)
      base_data == Get(root, parts[1], Null)
  IN  IF ~HasIteratorToken(jpath_query)
      THEN {[res |-> Raise("JPathError.noiterator"), items |-> <<>>]}
      ELSE IF Len(parts) # 2
      THEN {[res |-> Raise("ValueError"), items |-> <<>>]}
      ELSE IF ~base_data.ok
      THEN {[res |-> base_data, items |-> <<>>]}
      ELSE IF Iterations(base_data.val) = {}
      THEN {[res |-> Raise("TypeError"), items |-> <<>>]}
      ELSE {Yield(root, parts[2], elems) : elems \in Iterations(base_data.val)}

(***************************************************************************)
(* Inputs: the trees the evaluator is constructed over, and the paths and  *)
(* values the operations are called with.                                  *)
(***************************************************************************)
EmptyMap == MapV(<<>>)
EmptySeq == SeqV(<<>>)
a == <<"a">>
b == <<"b">>
x == <<"x">>
y == <<"y">>

\* {"a": va, "b": vb}
AB(va, vb) == MapV([k \in {StrKey(a), StrKey(b)} |->
                      IF k = StrKey(a) THEN va ELSE vb])

\* the documents json_data is constructed from; __init__ rejects an empty
\* one
Trees ==
  { \* {"a": [{"a": "y", "b": "x"}, {"a": "x", "b": "y"}], "b": [],
    \*  "a_b": "y"}
    MapV([k \in {StrKey(a), StrKey(b), StrKey(<<"a", "_", "b">>)} |->
            IF k = StrKey(a)
            THEN SeqV(<<AB(Str(y), Str(x)), AB(Str(x), Str(y))>>)
            ELSE IF k = StrKey(b) THEN EmptySeq ELSE Str(y)]),
    \* [{"a": null, "b": "xy"}, [{"a": "y"}]]
    SeqV(<<AB(Null, Str(<<"x", "y">>)),
           SeqV(<<MapV([k \in {StrKey(a)} |-> Str(y)])>>)>>) }

\* the values Set is called with
Values == {Str(x), EmptyMap}

Tokens ==
  { a, b, <<"a", "_", "b">>, <<"[", "1", "]">>,
    <<"[", "@", "a", "=", "x", "]">>, IteratorToken }

\* delimiter.join(tokens)
RECURSIVE Join(_)
Join(tokens) ==
  IF tokens = <<>> THEN <<>>
  ELSE IF Len(tokens) = 1 THEN tokens[1]
  ELSE tokens[1] \o <<delimiter>> \o Join(Tail(tokens))

TokenSeqs == UNION {[1..n -> Tokens] : n \in 0..MaxTokens}

\* every path of at most MaxTokens tokens, and the paths of at most one
\* token enclosed in delimiters
Paths ==
  {Join(ts) : ts \in TokenSeqs}
    \cup {<<delimiter>> \o t \o <<delimiter>> : t \in Tokens \cup {<<>>}}

\* the paths IterItems is called with: those of Paths, and a base path,
\* the iterator token and a trailing path of at most MaxTokens tokens
\* together
IterPaths ==
  Paths \cup
    {Join(bs \o <<IteratorToken>> \o ts) :
       <<bs, ts>> \in {p \in TokenSeqs \X TokenSeqs :
                         Len(p[1]) + Len(p[2]) <= MaxTokens}}

(***************************************************************************)
(* The evaluator as a state machine: one action per public method.         *)
(***************************************************************************)
VARIABLES
  json_data,    \* self.json_data
  pre,          \* self.json_data when the last call was made
  op,           \* the call that has just ended: "Get", "Set" or
                \* "IterItems"; "idle" between calls
  jpath_query,  \* its path
  set_value,    \* its value, for Set
  result,       \* what it returned or raised
  items,        \* the items IterItems yielded
  exhausted,    \* whether the generator was consumed to its end
  nsets         \* number of Set calls that succeeded

vars == <<json_data, pre, op, jpath_query, set_value, result, items,
          exhausted, nsets>>

Init ==
  /\ json_data \in Trees
  /\ pre = json_data
  /\ op = "idle"
  /\ jpath_query = <<>>
  /\ set_value = Null
  /\ result = Ok(Null)
  /\ items = <<>>
  /\ exhausted = FALSE
  /\ nsets = 0

\* GetOp as it would be if Get kept the node it narrowed to in
\* self.json_data
GetOpNarrow(q) ==
  /\ op = "idle"
  /\ op' = "Get"
  /\ jpath_query' = q
  /\ pre' = json_data
  /\ result' = Get(json_data, q, Null)
  /\ json_data' = IF Get(json_data, q, Null).ok
                  THEN Get(json_data, q, Null).val ELSE json_data
  /\ set_value' = Null
  /\ items' = <<>>
  /\ exhausted' = FALSE
  /\ UNCHANGED nsets

GetOp(q) ==
  /\ op = "idle"
  /\ op' = "Get"
  /\ jpath_query' = q
  /\ pre' = json_data
  /\ result' = Get(json_data, q, Null)
  /\ set_value' = Null
  /\ items' = <<>>
  /\ exhausted' = FALSE
  /\ UNCHANGED <<json_data, nsets>>

SetOp(q, v) ==
  /\ op = "idle"
  /\ nsets < MaxSets
  /\ LET out == Set(json_data, q, v)
     IN  /\ json_data' = out.tree
         /\ result' = out.res
         /\ nsets' = IF out.res.ok THEN nsets + 1 ELSE nsets
  /\ op' = "Set"
  /\ jpath_query' = q
  /\ pre' = json_data
  /\ set_value' = v
  /\ items' = <<>>
  /\ exhausted' = FALSE

\* the generator of IterItems(q), advanced until it has yielded n items or
\* has ended
IterOp(q) ==
  /\ op = "idle"
  /\ \E out \in IterItems(json_data, q) :
       \E n \in 0..Len(out.items) :
         \/ /\ items' = SubSeq(out.items, 1, n)
            /\ result' = Ok(Null)
            /\ exhausted' = FALSE
         \/ /\ n = Len(out.items)
            /\ items' = out.items
            /\ result' = out.res
            /\ exhausted' = TRUE
  /\ op' = "IterItems"
  /\ jpath_query' = q
  /\ pre' = json_data
  /\ set_value' = Null
  /\ UNCHANGED <<json_data, nsets>>

\* the calls are synchronous and the evaluator keeps nothing of a call but
\* its tree: the caller takes the outcome and may call again
Return ==
  /\ op # "idle"
  /\ op' = "idle"
  /\ pre' = json_data
  /\ jpath_query' = <<>>
  /\ set_value' = Null
  /\ result' = Ok(Null)
  /\ items' = <<>>
  /\ exhausted' = FALSE
  /\ UNCHANGED <<json_data, nsets>>

Next ==
  \/ \E q \in Paths : GetOp(q)
  \/ \E q \in Paths, v \in Values : SetOp(q, v)
  \/ \E q \in IterPaths : IterOp(q)
  \/ Return

Spec == Init /\ [][Next]_vars

(***************************************************************************)
(* Properties.                                                             *)
(***************************************************************************)
\* the tokens of the last call's path
QueryTokens == Split(Strip(jpath_query), <<delimiter>>)

\* the token forms of the path grammar, matched in full
IsIndexToken(t) == IndexPrefix(t) # <<>> /\ Len(t) = Len(IndexPrefix(t)) + 2
IsPredicateToken(t) == PredicateAt(t).kind = "predicate"
IsWordToken(t) == t # <<>> /\ \A i \in 1..Len(t) : t[i] \in Word
IsAlnumToken(t) == t # <<>> /\ \A i \in 1..Len(t) : t[i] \in Alnum

\* the key or index a token of a write path names
TokenKey(t) ==
  IF IsIndexToken(t) THEN IntKey(ParseInt(IndexPrefix(t))) ELSE StrKey(t)

\* the node Get is at when it takes token i of ts
Reached(root, ts, i) ==
  IF i = 1 THEN Ok(root) ELSE GetTokens(root, Null, SubSeq(ts, 1, i - 1))

\* node with one entry changed: the entry the tokens ts name, each token
\* resolved against the node reached by the tokens before it
RECURSIVE Assigned(_, _, _)
Assigned(node, ts, v) ==
  IF Len(ts) = 1 THEN SetItem(node, TokenKey(ts[1]), v)
  ELSE LET child == GetItem(node, TokenKey(ts[1]))
       IN  IF ~child.ok THEN child
           ELSE LET r == Assigned(child.val, Tail(ts), v)
                IN  IF ~r.ok THEN r
                    ELSE SetItem(node, TokenKey(ts[1]), r.val)

\* C1: after a successful Set(p, v) on a tree where the key-only path p
\* resolves, Get(p) returns v.
C1_RoundTrip ==
  (/\ op = "Set"
   /\ result.ok
   /\ \A i \in 1..Len(Split(jpath_query, <<delimiter>>)) :
        IsWordToken(Split(jpath_query, <<delimiter>>)[i])
   /\ Get(pre, jpath_query, Null).ok)
    => Get(json_data, jpath_query, Null) = Ok(set_value)

\* C2: IterItems over 'base/[*]trailing' whose base resolves to a sequence
\* of length N yields N items in order: the elements themselves when the
\* trailing path is empty, Get(trailing) of each element otherwise.
C2_IterYieldsEveryElement ==
  LET parts == Split(jpath_query, IteratorToken)
      base  == Get(pre, parts[1], Null)
      elems == base.val.s
  IN  (/\ op = "IterItems"
       /\ exhausted
       /\ Len(parts) = 2
       /\ base.ok
       /\ base.val.kind = "seq"
       /\ Strip(parts[2]) # <<>> =>
            \A i \in 1..Len(elems) : Get(elems[i], parts[2], Null).ok)
        => /\ result.ok
           /\ Len(items) = Len(elems)
           /\ \A i \in 1..Len(elems) :
                items[i] = IF Strip(parts[2]) = <<>> THEN elems[i]
                           ELSE Get(elems[i], parts[2], Null).val

\* C3: Set with a predicate token anywhere in the path fails with the
\* speculative-query error and leaves the tree as it was.
C3_SetRejectsPredicate ==
  (/\ op = "Set"
   /\ \E i \in 1..Len(QueryTokens) : IsPredicateToken(QueryTokens[i]))
    => /\ result = Raise("QueryError.speculative")
       /\ json_data = pre

\* C4: in Get, an index token [n] at any step, taken at a sequence of
\* length L, yields element n when n < L and makes Get fail with
\* IndexError when n >= L.
C4_IndexStep ==
  op = "Get" =>
    \A i \in 1..Len(QueryTokens) :
      LET at == Reached(pre, QueryTokens, i)
          n  == ParseInt(IndexPrefix(QueryTokens[i]))
      IN  (/\ IsIndexToken(QueryTokens[i])
           /\ at.ok
           /\ at.val.kind = "seq")
            => /\ n >= Len(at.val.s) => result = Raise("IndexError")
               /\ (n < Len(at.val.s) /\ i = Len(QueryTokens))
                    => result = Ok(at.val.s[n + 1])

\* C5: in Get, a predicate token taken at a sequence of mappings yields
\* the first element whose entry at the key equals the value, and Get
\* fails when no element matches.
C5_PredicateStep ==
  op = "Get" =>
    \A i \in 1..Len(QueryTokens) :
      LET at      == Reached(pre, QueryTokens, i)
          f       == PredicateAt(QueryTokens[i])
          elems   == at.val.s
          matches == {k \in 1..Len(elems) :
                        elems[k].m[StrKey(f.key_attribute)] = Str(f.key_value)}
      IN  (/\ IsPredicateToken(QueryTokens[i])
           /\ at.ok
           /\ at.val.kind = "seq"
           /\ \A k \in 1..Len(elems) :
                /\ elems[k].kind = "map"
                /\ StrKey(f.key_attribute) \in DOMAIN elems[k].m)
            => /\ matches = {} => ~result.ok
               /\ (matches # {} /\ i = Len(QueryTokens))
                    => result = Ok(elems[CHOOSE k \in matches :
                                           \A j \in matches : k <= j])

\* C6: Get and Set fail with a JPathError for every path that is empty
\* once its delimiters are stripped, and Set leaves the tree unchanged.
C6_EmptyPath ==
  (op \in {"Get", "Set"} /\ Strip(jpath_query) = <<>>)
    => /\ result.err \in JPathErrors
       /\ json_data = pre

\* C7: Set fails with a QueryError on a token that is neither an index
\* nor an alphanumeric key in full; it succeeds only when every token is
\* one of the two.
C7_SetRejectsMalformed ==
  op = "Set" =>
    /\ ~(IsIndexToken(QueryTokens[1]) \/ IsAlnumToken(QueryTokens[1]))
         => result.err \in QueryErrors \cup {"JPathError.nopath"}
    /\ result.ok =>
         \A i \in 1..Len(QueryTokens) :
           IsIndexToken(QueryTokens[i]) \/ IsAlnumToken(QueryTokens[i])

\* C8: Get and IterItems leave the tree as it was, whether they succeed
\* or fail and however far the generator is consumed.
C8_ReadOnly == op \in {"Get", "IterItems"} => json_data = pre

\* an IterItems whose generator yielded items and then raised
C8_Witness == op = "IterItems" /\ items # <<>> /\ ~result.ok

\* C9: a successful Set changes exactly the entry at the final token's key
\* or index in the container reached through the preceding tokens; stated
\* here for the paths whose tokens are all indexes or alphanumeric keys.
C9_SetChangesOneEntry ==
  (/\ op = "Set"
   /\ result.ok
   /\ \A i \in 1..Len(QueryTokens) :
        IsIndexToken(QueryTokens[i]) \/ IsAlnumToken(QueryTokens[i]))
    => Assigned(pre, QueryTokens, set_value) = Ok(json_data)

\* C10: a Set that fails leaves the tree as it was.
C10_FailedSetLeavesTree == (op = "Set" /\ ~result.ok) => json_data = pre

\* a Set that failed below the root, after its first token was resolved
C10_Witness ==
  /\ op = "Set"
  /\ Len(QueryTokens) >= 2
  /\ result.err \in {"KeyError", "IndexError", "TypeError"}
  /\ GetItem(pre, TokenKey(QueryTokens[1])).ok

====
